---- MODULE Spec2Model ----
(***************************************************************************)
(* Model of the four Lambda functions of cp-hackathon-backend              *)
(* (src/functions/*/lambda_handler.py): music, user settings, user image   *)
(* and history.  Every invocation builds a fresh handler object, so the    *)
(* only state that survives an invocation is what lives in the DynamoDB    *)
(* tables and the S3 buckets.  An invocation is one atomic action; a       *)
(* collaborator call (boto3) may raise, which is an input of the action    *)
(* (the number of the call that raises, 0 for none).                       *)
(***************************************************************************)
EXTENDS Naturals, Integers, Sequences, FiniteSets, TLC

(***************************************************************************)
(* Bounds of the model.                                                    *)
(***************************************************************************)
MaxUploads == 2        \* uuid4() values issued in one behaviour
MaxProduced == 1       \* objects the external producer adds to the history bucket

(***************************************************************************)
(* Python values.                                                          *)
(***************************************************************************)
None == "None"

\* Python truthiness of an optional string
Truthy(v) == v \notin {None, ""}

\* dict.get(key, default) on a dict modelled as a function
Get(d, k, default) == IF k \in DOMAIN d THEN d[k] ELSE default

\* the dict {} (a record, so that it compares with other dicts)
EmptyDict == [k \in {} |-> None]

Users == {"u1", "u2"}
Usernames == {"alice", "bob"}
Emails == {"a@x"}

(***************************************************************************)
(* The inbound event.                                                      *)
(***************************************************************************)
NoClaims == [sub |-> None, username |-> None, email |-> None]

ClaimsOf(u) ==
    [sub |-> u, username |-> IF u = "u1" THEN "alice" ELSE "bob", email |-> "a@x"]

ClaimsSet == {NoClaims} \cup {ClaimsOf(u) : u \in Users}

\* event["queryStringParameters"]: key absent, JSON null, or a map
QsAbsent == [kind |-> "absent", params |-> EmptyDict]
QsNull == [kind |-> "null", params |-> EmptyDict]
QsMap(m) == [kind |-> "map", params |-> m]

\* event["body"]: absent/empty, text that is not JSON, or a JSON object
BodyAbsent == [kind |-> "absent", fields |-> EmptyDict]
BodyBadJson == [kind |-> "badjson", fields |-> EmptyDict]
BodyObject(d) == [kind |-> "object", fields |-> d]

Event(m, p, c, b, q) ==
    [httpMethod |-> m, path |-> p, claims |-> c, body |-> b,
     queryStringParameters |-> q]

NoEvent == Event("", "", NoClaims, BodyAbsent, QsAbsent)

(***************************************************************************)
(* Responses.  An invocation either returns a response or ends in an       *)
(* unhandled exception ("fault").                                          *)
(***************************************************************************)
NoHeaders == [none |-> TRUE]

Fault(exc) ==
    [kind |-> "fault", statusCode |-> 0, error |-> exc, message |-> "",
     data |-> EmptyDict, headers |-> NoHeaders]

NoResponse ==
    [kind |-> "none", statusCode |-> 0, error |-> "", message |-> "",
     data |-> EmptyDict, headers |-> NoHeaders]

\* base64.b64decode(s): the text decodes iff it is made of whole quads
B64Ok(s) == Len(s) % 4 = 0

(***************************************************************************)
(* Collaborator results: a call returns a value or raises.                 *)
(***************************************************************************)
Ok(v) == [raised |-> "", value |-> v]
Raise(call) == [raised |-> call, value |-> EmptyDict]

\* put and delete on a table or a bucket modelled as a function
Put(store, k, v) == (k :> v) @@ store
Remove(store, k) == [j \in (DOMAIN store) \ {k} |-> store[j]]

\* uuid.uuid4(): the n-th identifier issued; identifiers are never reissued
uuid4(n) == "uuid" \o ToString(n)

\* s3.generate_presigned_url("get_object", ..., ExpiresIn=3600)
NoneUrl == [Bucket |-> "", Key |-> "", ExpiresIn |-> 0]
PresignedUrl(bucket, s3_key) == [Bucket |-> bucket, Key |-> s3_key, ExpiresIn |-> 3600]

(***************************************************************************)
(* functions/music/lambda_handler.py                                       *)
(***************************************************************************)
musics_storage_bucket_name == "cp-hackathon-backend-musics-bucket"

MusicHeaders ==
    [AllowHeaders |-> "Content-Type,X-Amz-Date,Authorization,X-Api-Key,X-Amz-Security-Token",
     AllowOrigin |-> "*",
     AllowMethods |-> {"OPTIONS", "GET", "POST"}]

\* MusicHandler.get_400_response / get_200_response (headers are added by handle)
Music400(msg) ==
    [kind |-> "response", statusCode |-> 400, error |-> msg, message |-> "",
     data |-> EmptyDict, headers |-> NoHeaders]
Music200(msg, d) ==
    [kind |-> "response", statusCode |-> 200, error |-> "", message |-> msg,
     data |-> d, headers |-> NoHeaders]


\* mutant: the key is signed without the test for an empty key
MusicGeneratePresignedUrlUnchecked(s3_key) ==
    PresignedUrl(musics_storage_bucket_name, s3_key)

\* MusicHandler.generate_presigned_url
MusicGeneratePresignedUrl(s3_key) ==
    IF ~Truthy(s3_key) THEN NoneUrl
    ELSE PresignedUrl(musics_storage_bucket_name, s3_key)


\* mutant: the title of the view is read from the wrong attribute
MusicViewTitleFromKey(item) ==
    [music_id |-> Get(item, "music_id", ""),
     title |-> Get(item, "s3_key", ""),
     s3_key |-> Get(item, "s3_key", ""),
     user_id |-> Get(item, "user_id", ""),
     presigned_url |-> MusicGeneratePresignedUrl(Get(item, "s3_key", ""))]

\* the dict get_music_list and get_music_by_id build from a table item
MusicView(item) ==
    [music_id |-> Get(item, "music_id", ""),
     title |-> Get(item, "title", ""),
     s3_key |-> Get(item, "s3_key", ""),
     user_id |-> Get(item, "user_id", ""),
     presigned_url |-> MusicGeneratePresignedUrl(Get(item, "s3_key", ""))]

\* MusicHandler.get_music_by_id; c is the number of its first collaborator call
GetMusicById(tbl, music_id, f, c) ==
    IF f = c THEN Raise("get_item")
    ELSE IF music_id \notin DOMAIN tbl THEN Ok(EmptyDict)
    ELSE IF Truthy(Get(tbl[music_id], "s3_key", "")) /\ f = c + 1
         THEN Raise("generate_presigned_url")
         ELSE Ok(MusicView(tbl[music_id]))


\* mutant: the key is built from title and extension alone
MusicS3KeyWithoutId(title, music_id, extension) ==
    "musics/" \o title \o "." \o extension

\* the s3_key format of upload_music
MusicS3Key(title, music_id, extension) ==
    "musics/" \o title \o "_" \o music_id \o "." \o extension


\* mutant: the item is put under its title, the table's second attribute
UploadMusicKeyedByTitle(tbl, bkt, user_id, music_data, title, extension, music_id, now, f, c) ==
    LET s3_key == MusicS3Key(title, music_id, extension)
        music == [music_id |-> music_id, title |-> title, s3_key |-> s3_key,
                  user_id |-> user_id, created_at |-> now]
        bkt1 == Put(bkt, s3_key, [Body |-> music_data, ContentType |-> "audio/*"])
    IN  IF f = c THEN [raised |-> "put_object", value |-> EmptyDict, tbl |-> tbl, bkt |-> bkt]
        ELSE IF f = c + 1
             THEN [raised |-> "put_item", value |-> EmptyDict, tbl |-> tbl, bkt |-> bkt1]
             ELSE [raised |-> "", value |-> music,
                   tbl |-> Put(tbl, title, music), bkt |-> bkt1]

\* mutant: the item put in the table is the view of the track, link included
UploadMusicStoringLink(tbl, bkt, user_id, music_data, title, extension, music_id, now, f, c) ==
    LET s3_key == MusicS3Key(title, music_id, extension)
        music == [music_id |-> music_id, title |-> title, s3_key |-> s3_key,
                  user_id |-> user_id, created_at |-> now]
        stored == [presigned_url |-> MusicGeneratePresignedUrl(s3_key)] @@ music
        bkt1 == Put(bkt, s3_key, [Body |-> music_data, ContentType |-> "audio/*"])
    IN  IF f = c THEN [raised |-> "put_object", value |-> EmptyDict, tbl |-> tbl, bkt |-> bkt]
        ELSE IF f = c + 1
             THEN [raised |-> "put_item", value |-> EmptyDict, tbl |-> tbl, bkt |-> bkt1]
             ELSE [raised |-> "", value |-> music,
                   tbl |-> Put(tbl, music_id, stored), bkt |-> bkt1]

\* MusicHandler.upload_music: put_object, then put_item
UploadMusic(tbl, bkt, user_id, music_data, title, extension, music_id, now, f, c) ==
    LET s3_key == MusicS3Key(title, music_id, extension)
        music == [music_id |-> music_id, title |-> title, s3_key |-> s3_key,
                  user_id |-> user_id, created_at |-> now]
        bkt1 == Put(bkt, s3_key, [Body |-> music_data, ContentType |-> "audio/*"])
    IN  IF f = c THEN [raised |-> "put_object", value |-> EmptyDict, tbl |-> tbl, bkt |-> bkt]
        ELSE IF f = c + 1
             THEN [raised |-> "put_item", value |-> EmptyDict, tbl |-> tbl, bkt |-> bkt1]
             ELSE [raised |-> "", value |-> music,
                   tbl |-> Put(tbl, music_id, music), bkt |-> bkt1]


\* mutant: delete_music removes the object and forgets the table item
DeleteMusicObjectOnly(tbl, bkt, music_id, f, c) ==
    LET got == GetMusicById(tbl, music_id, f, c)
        bkt1 == Remove(bkt, got.value.s3_key)
    IN  IF got.raised # "" THEN [raised |-> got.raised, tbl |-> tbl, bkt |-> bkt]
        ELSE IF DOMAIN got.value = {} THEN [raised |-> "", tbl |-> tbl, bkt |-> bkt]
        ELSE IF f = c + 2 THEN [raised |-> "delete_object", tbl |-> tbl, bkt |-> bkt]
        ELSE [raised |-> "", tbl |-> tbl, bkt |-> bkt1]

\* MusicHandler.delete_music: get_music_by_id, delete_object, delete_item
DeleteMusic(tbl, bkt, music_id, f, c) ==
    LET got == GetMusicById(tbl, music_id, f, c)
        bkt1 == Remove(bkt, got.value.s3_key)
    IN  IF got.raised # "" THEN [raised |-> got.raised, tbl |-> tbl, bkt |-> bkt]
        ELSE IF DOMAIN got.value = {} THEN [raised |-> "", tbl |-> tbl, bkt |-> bkt]
        ELSE IF f = c + 2 THEN [raised |-> "delete_object", tbl |-> tbl, bkt |-> bkt]
        ELSE IF f = c + 3 THEN [raised |-> "delete_item", tbl |-> tbl, bkt |-> bkt1]
        ELSE [raised |-> "", tbl |-> Remove(tbl, music_id), bkt |-> bkt1]

\* what an invocation of the music function leaves behind
MusicOutcome(r, tbl, bkt, failed) ==
    [response |-> r, tbl |-> tbl, bkt |-> bkt, failed |-> failed]

\* MusicHandler.get_music_list: scan, then one presigned URL per item with a key.
\* The order of a scan is unspecified, so the list is modelled as a set.
GetMusicList(tbl, f, c) ==
    LET keyed == {m \in DOMAIN tbl : Truthy(Get(tbl[m], "s3_key", ""))}
    IN  IF f = c THEN Raise("scan")
        ELSE IF f > c /\ f <= c + Cardinality(keyed) THEN Raise("generate_presigned_url")
        ELSE Ok({MusicView(tbl[m]) : m \in DOMAIN tbl})

\* MusicHandler.handle_get_music_list
HandleGetMusicList(tbl, bkt, f, c) ==
    LET got == GetMusicList(tbl, f, c)
    IN  IF got.raised # "" THEN MusicOutcome(Fault("ClientError"), tbl, bkt, got.raised)
        ELSE MusicOutcome(Music200("Music list retrieved successfully",
                                   [music_list |-> got.value]), tbl, bkt, "")


\* mutant: get-by-id asks for an identity, as upload and delete do
HandleGetMusicByIdWithIdentity(event, tbl, bkt, f, c) ==
    LET qs == event.queryStringParameters
        music_id == Get(qs.params, "music_id", None)
        got == GetMusicById(tbl, music_id, f, c)
    IN  IF event.claims = NoClaims
        THEN MusicOutcome(Music400("Unauthorized: No user ID found in claims"), tbl, bkt, "")
        ELSE IF qs.kind = "null" THEN MusicOutcome(Fault("AttributeError"), tbl, bkt, "")
        ELSE IF ~Truthy(music_id)
             THEN MusicOutcome(Music400("Music ID is required"), tbl, bkt, "")
        ELSE IF got.raised # "" THEN MusicOutcome(Fault("ClientError"), tbl, bkt, got.raised)
        ELSE IF DOMAIN got.value = {}
             THEN MusicOutcome(Music400("Music not found"), tbl, bkt, "")
        ELSE MusicOutcome(Music200("Music retrieved successfully", got.value), tbl, bkt, "")

\* MusicHandler.handle_get_music_by_id
HandleGetMusicById(event, tbl, bkt, f, c) ==
    LET qs == event.queryStringParameters
        music_id == Get(qs.params, "music_id", None)
        got == GetMusicById(tbl, music_id, f, c)
    IN  IF qs.kind = "null" THEN MusicOutcome(Fault("AttributeError"), tbl, bkt, "")
        ELSE IF ~Truthy(music_id)
             THEN MusicOutcome(Music400("Music ID is required"), tbl, bkt, "")
        ELSE IF got.raised # "" THEN MusicOutcome(Fault("ClientError"), tbl, bkt, got.raised)
        ELSE IF DOMAIN got.value = {}
             THEN MusicOutcome(Music400("Music not found"), tbl, bkt, "")
        ELSE MusicOutcome(Music200("Music retrieved successfully", got.value), tbl, bkt, "")


\* mutant: handle_upload_music without its identity check
HandleUploadMusicNoIdentityCheck(body, user_id, tbl, bkt, music_id, now, f, c) ==
    LET up == UploadMusic(tbl, bkt, user_id, body["music"], body["title"],
                          body["extension"], music_id, now, f, c)
    IN  IF "music" \notin DOMAIN body
        THEN MusicOutcome(Music400("Music data is required"), tbl, bkt, "")
        ELSE IF "title" \notin DOMAIN body
             THEN MusicOutcome(Music400("Title is required"), tbl, bkt, "")
        ELSE IF "extension" \notin DOMAIN body
             THEN MusicOutcome(Music400("Extension is required"), tbl, bkt, "")
        ELSE IF ~B64Ok(body["music"])
             THEN MusicOutcome(Fault("binascii.Error"), tbl, bkt, "")
        ELSE IF up.raised # ""
             THEN MusicOutcome(Music400("Failed to upload music, error: " \o up.raised),
                               up.tbl, up.bkt, up.raised)
        ELSE MusicOutcome(Music200("Music uploaded successfully", up.value),
                          up.tbl, up.bkt, "")

\* mutant: the presence checks run in another order, extension first
HandleUploadMusicExtensionFirst(body, user_id, tbl, bkt, music_id, now, f, c) ==
    LET up == UploadMusic(tbl, bkt, user_id, body["music"], body["title"],
                          body["extension"], music_id, now, f, c)
    IN  IF user_id = None
        THEN MusicOutcome(Music400("Unauthorized: No user ID found in claims"), tbl, bkt, "")
        ELSE IF "extension" \notin DOMAIN body
             THEN MusicOutcome(Music400("Extension is required"), tbl, bkt, "")
        ELSE IF "title" \notin DOMAIN body
             THEN MusicOutcome(Music400("Title is required"), tbl, bkt, "")
        ELSE IF "music" \notin DOMAIN body
             THEN MusicOutcome(Music400("Music data is required"), tbl, bkt, "")
        ELSE IF ~B64Ok(body["music"])
             THEN MusicOutcome(Fault("binascii.Error"), tbl, bkt, "")
        ELSE IF up.raised # ""
             THEN MusicOutcome(Music400("Failed to upload music, error: " \o up.raised),
                               up.tbl, up.bkt, up.raised)
        ELSE MusicOutcome(Music200("Music uploaded successfully", up.value),
                          up.tbl, up.bkt, "")

\* MusicHandler.handle_upload_music
HandleUploadMusic(body, user_id, tbl, bkt, music_id, now, f, c) ==
    LET up == UploadMusic(tbl, bkt, user_id, body["music"], body["title"],
                          body["extension"], music_id, now, f, c)
    IN  IF user_id = None
        THEN MusicOutcome(Music400("Unauthorized: No user ID found in claims"), tbl, bkt, "")
        ELSE IF "music" \notin DOMAIN body
             THEN MusicOutcome(Music400("Music data is required"), tbl, bkt, "")
        ELSE IF "title" \notin DOMAIN body
             THEN MusicOutcome(Music400("Title is required"), tbl, bkt, "")
        ELSE IF "extension" \notin DOMAIN body
             THEN MusicOutcome(Music400("Extension is required"), tbl, bkt, "")
        ELSE IF ~B64Ok(body["music"])
             THEN MusicOutcome(Fault("binascii.Error"), tbl, bkt, "")
        ELSE IF up.raised # ""
             THEN MusicOutcome(Music400("Failed to upload music, error: " \o up.raised),
                               up.tbl, up.bkt, up.raised)
        ELSE MusicOutcome(Music200("Music uploaded successfully", up.value),
                          up.tbl, up.bkt, "")

\* MusicHandler.handle_delete_music
HandleDeleteMusic(event, user_id, tbl, bkt, f, c) ==
    LET qs == event.queryStringParameters
        music_id == Get(qs.params, "music_id", None)
        del == DeleteMusic(tbl, bkt, music_id, f, c)
    IN  IF user_id = None
        THEN MusicOutcome(Music400("Unauthorized: No user ID found in claims"), tbl, bkt, "")
        ELSE IF qs.kind = "null" THEN MusicOutcome(Fault("AttributeError"), tbl, bkt, "")
        ELSE IF ~Truthy(music_id)
             THEN MusicOutcome(Music400("Music ID is required"), tbl, bkt, "")
        ELSE IF del.raised # ""
             THEN MusicOutcome(Music400("Failed to delete music, error: " \o del.raised),
                               del.tbl, del.bkt, del.raised)
        ELSE MusicOutcome(Music200("Music deleted successfully", EmptyDict),
                          del.tbl, del.bkt, "")


\* mutant: handle's /music branch falls through to delete for any other method
MusicRouteDeleteByDefault(event, user_id, tbl, bkt, music_id, now, f, c) ==
    IF event.path = "/music"
    THEN IF event.httpMethod = "GET" THEN HandleGetMusicById(event, tbl, bkt, f, c)
         ELSE IF event.httpMethod = "POST"
              THEN HandleUploadMusic(event.body.fields, user_id, tbl, bkt, music_id, now, f, c)
         ELSE HandleDeleteMusic(event, user_id, tbl, bkt, f, c)
    ELSE IF event.path = "/music/list"
    THEN IF event.httpMethod = "GET" THEN HandleGetMusicList(tbl, bkt, f, c)
         ELSE MusicOutcome(Music400("Unsupported HTTP method"), tbl, bkt, "")
    ELSE MusicOutcome(Fault("UnboundLocalError"), tbl, bkt, "")

\* the branch of MusicHandler.handle on (path, httpMethod); an unknown path
\* leaves the local variable response unbound
MusicRoute(event, user_id, tbl, bkt, music_id, now, f, c) ==
    IF event.path = "/music"
    THEN IF event.httpMethod = "GET" THEN HandleGetMusicById(event, tbl, bkt, f, c)
         ELSE IF event.httpMethod = "POST"
              THEN HandleUploadMusic(event.body.fields, user_id, tbl, bkt, music_id, now, f, c)
         ELSE IF event.httpMethod = "DELETE"
              THEN HandleDeleteMusic(event, user_id, tbl, bkt, f, c)
         ELSE MusicOutcome(Music400("Unsupported HTTP method"), tbl, bkt, "")
    ELSE IF event.path = "/music/list"
    THEN IF event.httpMethod = "GET" THEN HandleGetMusicList(tbl, bkt, f, c)
         ELSE MusicOutcome(Music400("Unsupported HTTP method"), tbl, bkt, "")
    ELSE MusicOutcome(Fault("UnboundLocalError"), tbl, bkt, "")


\* mutant: the headers are attached to success responses only
WithHeadersOnSuccess(o, h) ==
    IF o.response.kind = "response" /\ o.response.statusCode = 200
    THEN [o EXCEPT !.response = [o.response EXCEPT !.headers = h]]
    ELSE [o EXCEPT !.response = [o.response EXCEPT !.headers = NoHeaders]]

\* response["headers"] = self.headers
WithHeaders(o, h) ==
    IF o.response.kind = "response"
    THEN [o EXCEPT !.response = [o.response EXCEPT !.headers = h]]
    ELSE o

\* MusicHandler.handle: parse the body, resolve the identity (which reads the
\* settings table when there are claims), route, add the CORS headers
MusicHandle(event, tbl, bkt, music_id, now, f) ==
    LET hasClaims == event.claims # NoClaims
        user_id == IF hasClaims THEN event.claims.sub ELSE None
        c == IF hasClaims THEN 2 ELSE 1
    IN  IF event.body.kind = "badjson"
        THEN MusicOutcome(Fault("JSONDecodeError"), tbl, bkt, "")
        ELSE IF hasClaims /\ f = 1
             THEN MusicOutcome(Fault("ClientError"), tbl, bkt, "get_item")
        ELSE WithHeaders(MusicRoute(event, user_id, tbl, bkt, music_id, now, f, c),
                         MusicHeaders)

(***************************************************************************)
(* functions/user/settings/lambda_handler.py                               *)
(***************************************************************************)
SettingsHeaders ==
    [AllowHeaders |-> "Content-Type,X-Amz-Date,Authorization,X-Api-Key,X-Amz-Security-Token",
     AllowOrigin |-> "*",
     AllowMethods |-> {"OPTIONS", "PUT", "GET"}]

\* UserSettingsHandler.get_400_response / get_200_response
Settings400(msg) ==
    [kind |-> "response", statusCode |-> 400, error |-> msg, message |-> "",
     data |-> EmptyDict, headers |-> SettingsHeaders]
Settings200(msg, d) ==
    [kind |-> "response", statusCode |-> 200, error |-> "", message |-> msg,
     data |-> d, headers |-> SettingsHeaders]

SettingsOutcome(r, tbl, failed) == [response |-> r, tbl |-> tbl, failed |-> failed]

\* UserSettingsHandler.get_user_settings
SettingsGetUserSettings(tbl, user_id, f, c) ==
    LET item == IF user_id \in DOMAIN tbl THEN tbl[user_id] ELSE EmptyDict
    IN  IF f = c THEN Raise("get_item")
        ELSE Ok([user_id |-> user_id,
                 username |-> Get(item, "username", ""),
                 email |-> Get(item, "email", ""),
                 music_id |-> Get(item, "music_id", "")])


\* mutant: update_user_settings checks email before username
MissingFieldEmailFirst(body) ==
    IF "email" \notin DOMAIN body THEN "Missing required field: email"
    ELSE IF "username" \notin DOMAIN body THEN "Missing required field: username"
    ELSE IF "music_id" \notin DOMAIN body THEN "Missing required field: music_id"
    ELSE ""

\* the ValueError of update_user_settings, "" when the body has all fields
MissingField(body) ==
    IF "username" \notin DOMAIN body THEN "Missing required field: username"
    ELSE IF "email" \notin DOMAIN body THEN "Missing required field: email"
    ELSE IF "music_id" \notin DOMAIN body THEN "Missing required field: music_id"
    ELSE ""


\* mutant: attributes the item already has are kept (SET a = if_not_exists(a, :a))
UpdateItemKeepExisting(tbl, user_id, body) ==
    LET old == IF user_id \in DOMAIN tbl THEN tbl[user_id] ELSE [user_id |-> user_id]
        set == [username |-> body["username"], email |-> body["email"],
                music_id |-> body["music_id"]]
    IN  Put(tbl, user_id, old @@ set)

\* update_item(Key={"user_id": ...}, UpdateExpression="SET username = ..., ...")
UpdateItem(tbl, user_id, body) ==
    LET old == IF user_id \in DOMAIN tbl THEN tbl[user_id] ELSE [user_id |-> user_id]
        set == [username |-> body["username"], email |-> body["email"],
                music_id |-> body["music_id"]]
    IN  Put(tbl, user_id, set @@ old)

\* UserSettingsHandler.update_user_settings
UpdateUserSettings(tbl, user_id, body, f, c) ==
    IF MissingField(body) # ""
    THEN [raised |-> "ValueError", error |-> MissingField(body), value |-> EmptyDict, tbl |-> tbl]
    ELSE IF f = c
         THEN [raised |-> "update_item", error |-> "ClientError", value |-> EmptyDict, tbl |-> tbl]
         ELSE [raised |-> "", error |-> "",
               value |-> [user_id |-> user_id, username |-> body["username"],
                          email |-> body["email"], music_id |-> body["music_id"]],
               tbl |-> UpdateItem(tbl, user_id, body)]

\* mutant: a user_id without a record is answered with a not-found failure
HandleGetUserSettingsNotFound(event, tbl, f, c) ==
    LET qs == event.queryStringParameters
        got == SettingsGetUserSettings(tbl, qs.params["user_id"], f, c)
    IN  IF "user_id" \notin DOMAIN qs.params
        THEN SettingsOutcome(Settings400("user_id is required in query parameters"), tbl, "")
        ELSE IF got.raised # "" THEN SettingsOutcome(Fault("ClientError"), tbl, got.raised)
        ELSE IF qs.params["user_id"] \notin DOMAIN tbl
             THEN SettingsOutcome(Settings400("User settings not found"), tbl, "")
        ELSE SettingsOutcome(Settings200("Settings retrieved", got.value), tbl, "")

\* UserSettingsHandler.handle_get_user_settings
HandleGetUserSettings(event, tbl, f, c) ==
    LET qs == event.queryStringParameters
        got == SettingsGetUserSettings(tbl, qs.params["user_id"], f, c)
    IN  IF "user_id" \notin DOMAIN qs.params
        THEN SettingsOutcome(Settings400("user_id is required in query parameters"), tbl, "")
        ELSE IF got.raised # "" THEN SettingsOutcome(Fault("ClientError"), tbl, got.raised)
        ELSE SettingsOutcome(Settings200("Settings retrieved", got.value), tbl, "")

\* UserSettingsHandler.handle_update_user_settings: only ValueError is caught
HandleUpdateUserSettings(body, user_id, tbl, f, c) ==
    LET upd == UpdateUserSettings(tbl, user_id, body, f, c)
    IN  IF user_id = None
        THEN SettingsOutcome(Settings400("Unauthorized: No user ID found in claims"), tbl, "")
        ELSE IF upd.raised = "ValueError" THEN SettingsOutcome(Settings400(upd.error), tbl, "")
        ELSE IF upd.raised # "" THEN SettingsOutcome(Fault(upd.error), tbl, upd.raised)
        ELSE SettingsOutcome(Settings200("Settings updated", upd.value), upd.tbl, "")

\* mutant: the user_id of the body, when it has one, replaces that of the claims
SettingsHandleUserIdFromBody(event, tbl, f) ==
    LET user_id == IF event.claims = NoClaims THEN None
                   ELSE Get(event.body.fields, "user_id", event.claims.sub)
        o == IF event.httpMethod = "GET" THEN HandleGetUserSettings(event, tbl, f, 1)
             ELSE IF event.httpMethod = "PUT"
                  THEN HandleUpdateUserSettings(event.body.fields, user_id, tbl, f, 1)
             ELSE SettingsOutcome(Settings400("Unsupported HTTP method"), tbl, "")
    IN  IF event.body.kind = "badjson"
        THEN SettingsOutcome(Fault("JSONDecodeError"), tbl, "")
        ELSE WithHeaders(o, SettingsHeaders)

\* UserSettingsHandler.handle: the path is never looked at
SettingsHandle(event, tbl, f) ==
    LET user_id == IF event.claims # NoClaims THEN event.claims.sub ELSE None
        o == IF event.httpMethod = "GET" THEN HandleGetUserSettings(event, tbl, f, 1)
             ELSE IF event.httpMethod = "PUT"
                  THEN HandleUpdateUserSettings(event.body.fields, user_id, tbl, f, 1)
             ELSE SettingsOutcome(Settings400("Unsupported HTTP method"), tbl, "")
    IN  IF event.body.kind = "badjson"
        THEN SettingsOutcome(Fault("JSONDecodeError"), tbl, "")
        ELSE WithHeaders(o, SettingsHeaders)

(***************************************************************************)
(* functions/user/image/lambda_handler.py                                  *)
(***************************************************************************)
image_storage_bucket_name == "raspberrypi-image-storage"

ImageHeaders ==
    [AllowHeaders |-> "Content-Type,X-Amz-Date,Authorization,X-Api-Key,X-Amz-Security-Token",
     AllowOrigin |-> "*",
     AllowMethods |-> {"OPTIONS", "GET", "POST"}]

Image400(msg) ==
    [kind |-> "response", statusCode |-> 400, error |-> msg, message |-> "",
     data |-> EmptyDict, headers |-> NoHeaders]
Image200(msg, d) ==
    [kind |-> "response", statusCode |-> 200, error |-> "", message |-> msg,
     data |-> d, headers |-> NoHeaders]

ImageOutcome(r, bkt, failed) == [response |-> r, bkt |-> bkt, failed |-> failed]

\* UserImageHandler.get_user_settings: the username of the settings item, when
\* there is one, replaces the username of the claims
ImageResolveUsername(claims, settings) ==
    IF claims.sub \in DOMAIN settings
    THEN Get(settings[claims.sub], "username", "")
    ELSE claims.username

\* s3_key = f"roles/{self.username}.jpg"
ImageS3Key(username) == "roles/" \o username \o ".jpg"


\* mutant: this copy of the key format names another extension than the one
\* update_user_image writes under
GenerateUserImagePresignedUrlPng(username) ==
    PresignedUrl(image_storage_bucket_name, "roles/" \o username \o ".png")

\* UserImageHandler.generate_user_image_presigned_url
GenerateUserImagePresignedUrl(username) ==
    PresignedUrl(image_storage_bucket_name, ImageS3Key(username))

\* mutant: the link is generated without asking head_object for the object
GetUserImageUnchecked(bkt, username, f, c) ==
    IF f = c + 1 THEN Raise("generate_presigned_url")
    ELSE Ok(GenerateUserImagePresignedUrl(username))

\* UserImageHandler.get_user_image: any failure of head_object reads as absence
GetUserImage(bkt, username, f, c) ==
    IF f = c \/ ImageS3Key(username) \notin DOMAIN bkt THEN Ok(NoneUrl)
    ELSE IF f = c + 1 THEN Raise("generate_presigned_url")
    ELSE Ok(GenerateUserImagePresignedUrl(username))

\* UserImageHandler.update_user_image: put_object, then the presigned URL
UpdateUserImage(bkt, username, image_data, f, c) ==
    LET bkt1 == Put(bkt, ImageS3Key(username),
                    [Body |-> image_data, ContentType |-> "image/*"])
    IN  IF f = c THEN [raised |-> "put_object", bkt |-> bkt]
        ELSE IF f = c + 1 THEN [raised |-> "generate_presigned_url", bkt |-> bkt1]
        ELSE [raised |-> "", bkt |-> bkt1]

\* UserImageHandler.handle_get_user_image
HandleGetUserImage(user_id, username, bkt, f, c) ==
    LET got == GetUserImage(bkt, username, f, c)
    IN  IF user_id = None
        THEN ImageOutcome(Image400("Unauthorized: No user ID found in claims"), bkt, "")
        ELSE IF got.raised # "" THEN ImageOutcome(Fault("ClientError"), bkt, got.raised)
        ELSE IF got.value = NoneUrl
             THEN ImageOutcome(Image400("Image not found"), bkt,
                               IF f = c THEN "head_object" ELSE "")
        ELSE ImageOutcome(Image200("Image found", [image_url |-> got.value]), bkt, "")

\* UserImageHandler.handle_update_user_image: the URL of the response is
\* generated outside the try block
HandleUpdateUserImage(body, user_id, username, bkt, f, c) ==
    LET upd == UpdateUserImage(bkt, username, body["image"], f, c)
    IN  IF user_id = None
        THEN ImageOutcome(Image400("Unauthorized: No user ID found in claims"), bkt, "")
        ELSE IF "image" \notin DOMAIN body
             THEN ImageOutcome(Image400("Image data is required"), bkt, "")
        ELSE IF ~B64Ok(body["image"]) THEN ImageOutcome(Fault("binascii.Error"), bkt, "")
        ELSE IF upd.raised # ""
             THEN ImageOutcome(Image400("Failed to update image, error: " \o upd.raised),
                               upd.bkt, upd.raised)
        ELSE IF f = c + 2
             THEN ImageOutcome(Fault("ClientError"), upd.bkt, "generate_presigned_url")
        ELSE ImageOutcome(Image200("Image updated successfully",
                                   [image_url |-> GenerateUserImagePresignedUrl(username)]),
                          upd.bkt, "")

\* UserImageHandler.handle: the path is never looked at
ImageHandle(event, settings, bkt, f) ==
    LET hasClaims == event.claims # NoClaims
        user_id == IF hasClaims THEN event.claims.sub ELSE None
        username == IF hasClaims THEN ImageResolveUsername(event.claims, settings) ELSE None
        c == IF hasClaims THEN 2 ELSE 1
        o == IF event.httpMethod = "GET" THEN HandleGetUserImage(user_id, username, bkt, f, c)
             ELSE IF event.httpMethod = "POST"
                  THEN HandleUpdateUserImage(event.body.fields, user_id, username, bkt, f, c)
             ELSE ImageOutcome(Image400("Unsupported HTTP method"), bkt, "")
    IN  IF event.body.kind = "badjson" THEN ImageOutcome(Fault("JSONDecodeError"), bkt, "")
        ELSE IF hasClaims /\ f = 1 THEN ImageOutcome(Fault("ClientError"), bkt, "get_item")
        ELSE WithHeaders(o, ImageHeaders)

(***************************************************************************)
(* functions/history/lambda_handler.py                                     *)
(***************************************************************************)
history_bucket_name == "raspberrypi-image-storage2"

\* get_decoded_list(self, limit=40)
DecodedLimit == 40

\* s3.list_objects is called without MaxKeys and without following
\* IsTruncated/Marker: one page, which S3 caps at 1000 keys
ListMaxKeys == 1000

HistoryHeaders ==
    [AllowHeaders |-> "Content-Type,X-Amz-Date,Authorization,X-Api-Key,X-Amz-Security-Token",
     AllowOrigin |-> "*",
     AllowMethods |-> {"OPTIONS", "GET", "POST"}]

History400(msg) ==
    [kind |-> "response", statusCode |-> 400, error |-> msg, message |-> "",
     data |-> EmptyDict, headers |-> NoHeaders]
History200(msg, d) ==
    [kind |-> "response", statusCode |-> 200, error |-> "", message |-> msg,
     data |-> d, headers |-> NoHeaders]

HistoryOutcome(r, failed) == [response |-> r, failed |-> failed]

\* An object under decoded/ is [Stem, Ext]: its key is decoded/<stem><ext>,
\* the stem written with a fixed width so that key order is stem order;
\* Ext is "/" for a directory marker.
Pad4(n) ==
    IF n < 10 THEN "000" \o ToString(n)
    ELSE IF n < 100 THEN "00" \o ToString(n)
    ELSE IF n < 1000 THEN "0" \o ToString(n)
    ELSE ToString(n)
DecodedKey(obj) == "decoded/" \o Pad4(obj.Stem) \o obj.Ext

\* s3_key.endswith("/")
EndsWithSlash(obj) == obj.Ext = "/"

\* s3.list_objects(Bucket, Prefix="decoded/")["Contents"]: the first page of
\* the listing, which S3 returns in ascending key order
ListObjects(bkt) ==
    SubSeq(bkt, 1, IF Len(bkt) < ListMaxKeys THEN Len(bkt) ELSE ListMaxKeys)

\* decoded_list.sort(key=lambda x: x["s3_key"], reverse=True)
SortByKeyDesc(s) == SortSeq(s, LAMBDA a, b : a.Stem > b.Stem)

\* decoded_list[:limit]
Truncate(s, limit) == SubSeq(s, 1, IF Len(s) < limit THEN Len(s) ELSE limit)

\* HistoryHandler.generate_presigned_url
HistoryGeneratePresignedUrl(s3_key) ==
    IF ~Truthy(s3_key) THEN NoneUrl
    ELSE PresignedUrl(history_bucket_name, s3_key)

\* HistoryHandler.get_decoded_list: list, drop directories, sort, truncate, sign
GetDecodedList(bkt, f, c) ==
    LET contents == ListObjects(bkt)
        files == SelectSeq(contents, LAMBDA o : ~EndsWithSlash(o))
        top == Truncate(SortByKeyDesc(files), DecodedLimit)
    IN  IF f = c THEN Raise("list_objects")
        ELSE IF f > c /\ f <= c + Len(top) THEN Raise("generate_presigned_url")
        ELSE Ok([i \in 1..Len(top) |->
                   [s3_key |-> DecodedKey(top[i]),
                    stem |-> top[i].Stem,        \* the rank of s3_key in key order

                    presigned_url |-> HistoryGeneratePresignedUrl(DecodedKey(top[i]))]])

\* HistoryHandler.get_results_by_decoded_key: decoded/ -> results/, extension
\* dropped, "_match.json" appended; any failure becomes an error payload
ResultsKey(stem) == "results/" \o Pad4(stem) \o "_match.json"
GetResultsByDecodedKey(results, stem) ==
    IF stem \in results
    THEN [key |-> ResultsKey(stem), error |-> ""]
    ELSE [key |-> ResultsKey(stem), error |-> "NoSuchKey"]

\* mutant: get_results_by_decoded_key without its except clause, so that a
\* missing results object ends the whole listing
HandleGetHistoryListUncaught(bkt, results, f, c) ==
    LET got == GetDecodedList(bkt, f, c)
    IN  IF got.raised # "" THEN HistoryOutcome(Fault("ClientError"), got.raised)
        ELSE IF \E i \in 1..Len(got.value) : got.value[i].stem \notin results
             THEN HistoryOutcome(Fault("ClientError"), "")
        ELSE HistoryOutcome(
               History200("History list retrieved successfully",
                          [history_list |->
                             [i \in 1..Len(got.value) |->
                                [decoded |-> got.value[i],
                                 results |-> GetResultsByDecodedKey(results, got.value[i].stem)]]]),
               "")

\* HistoryHandler.handle_get_history_list
HandleGetHistoryList(bkt, results, f, c) ==
    LET got == GetDecodedList(bkt, f, c)
    IN  IF got.raised # "" THEN HistoryOutcome(Fault("ClientError"), got.raised)
        ELSE HistoryOutcome(
               History200("History list retrieved successfully",
                          [history_list |->
                             [i \in 1..Len(got.value) |->
                                [decoded |-> got.value[i],
                                 results |-> GetResultsByDecodedKey(results, got.value[i].stem)]]]),
               "")

\* HistoryHandler.handle
HistoryHandle(event, bkt, results, f) ==
    LET o == IF event.path = "/history/list"
             THEN IF event.httpMethod = "GET" THEN HandleGetHistoryList(bkt, results, f, 1)
                  ELSE HistoryOutcome(History400("Unsupported HTTP method"), "")
             ELSE HistoryOutcome(History400("Unsupported path: " \o event.path), "")
    IN  IF event.body.kind = "badjson" THEN HistoryOutcome(Fault("JSONDecodeError"), "")
        ELSE WithHeaders(o, HistoryHeaders)

(***************************************************************************)
(* State.                                                                  *)
(***************************************************************************)
VARIABLES
    fn,                     \* the deployed function this behaviour invokes
    req,                    \* the event of the last invocation
    resp,                   \* what the last invocation returned (or its fault)
    failed,                 \* the collaborator call that raised in it, "" if none
    musics_table,           \* cp-hackathon-backend-musics-db-table: music_id -> item
    musics_bucket,          \* cp-hackathon-backend-musics-bucket: key -> object
    issued,                 \* number of uuid4() values issued so far
    uploadLog,              \* history: body sent and record returned, per successful upload
    deletedOk,              \* history: the issued music ids of DELETEs answered with 200
    user_settings_table,    \* cp-hackathon-backend-user-settings-db-table (music, image)
    account_settings_table, \* cp-hackathon-<account>-backend-user-settings-db-table
    lastUpdate,             \* history: user_id -> body of its last update answered 200,
                            \*          and whether that update replaced an earlier one
    image_bucket,           \* raspberrypi-image-storage: key -> object
    imageKeys,              \* history: user_id -> storage keys its image requests used
    history_bucket,         \* raspberrypi-image-storage2, decoded/: ascending listing
    history_results,        \* raspberrypi-image-storage2, results/: stems with a result
    produced                \* objects added by the external producer

vars == <<fn, req, resp, failed, musics_table, musics_bucket, issued, uploadLog,
          deletedOk, user_settings_table, account_settings_table, lastUpdate,
          image_bucket, imageKeys, history_bucket, history_results, produced>>

musicVars == <<musics_table, musics_bucket, issued, uploadLog, deletedOk>>
settingsVars == <<account_settings_table, lastUpdate>>
imageVars == <<image_bucket, imageKeys>>
historyVars == <<history_bucket, history_results, produced>>

EmptyStore == [k \in {} |-> EmptyDict]

(***************************************************************************)
(* Inputs.                                                                 *)
(***************************************************************************)
Functions == {"music", "settings", "image", "history"}

Titles == {"a", "a_b"}
Extensions == {"mp3"}
Base64Texts == {"QUJD", "QUJ"}      \* b64decode accepts the first, rejects the second

\* the dicts that lack at least one of the keys ks (values v), and the complete ones
Incomplete(ks, v) == {[k \in S |-> v[k]] : S \in (SUBSET ks) \ {ks}}

\* bodies of POST /music: absent, every incomplete object, and the complete
\* objects over the texts and titles
MusicBodies ==
    {BodyAbsent}
    \cup {BodyObject(d) : d \in Incomplete({"music", "title", "extension"},
                                           [music |-> "QUJD", title |-> "a", extension |-> "mp3"])}
    \cup {BodyObject([music |-> m, title |-> t, extension |-> e]) :
            m \in Base64Texts, t \in Titles, e \in Extensions}

\* a music_id a caller can name: one that was issued, or one that never is
MusicIds == {uuid4(i) : i \in 1..issued} \cup {"no-such-id"}
MusicQueries ==
    {QsAbsent, QsNull} \cup {QsMap([music_id |-> m]) : m \in MusicIds}

\* a music_id GET /music can name: those, or the item stored without an s3_key
MusicGetQueries == MusicQueries \cup {QsMap([music_id |-> "legacy"])}

\* The musics table as the handlers may find it: empty, or holding one item
\* that was stored without an s3_key (get_music_list and get_music_by_id read
\* the attribute with item.get("s3_key", "")).
ExternalMusicsTables ==
    {EmptyStore,
     [m \in {"legacy"} |-> [music_id |-> "legacy", title |-> "old", user_id |-> "u2"]]}

\* tables written outside this repository's handlers
ExternalSettingsTables ==
    {EmptyStore,
     [u \in {"u1"} |-> [user_id |-> "u1", username |-> "bob", email |-> "a@x"]]}

(***************************************************************************)
(* Initial states.  The four functions are deployed separately and share   *)
(* no store that any of them writes, so a behaviour follows the            *)
(* invocations of one function; the stores it does not use stay empty.     *)
(***************************************************************************)
\* the decoded/ listing with stems 1..n, those in dirs being directory markers
Listing(n, dirs) ==
    [i \in 1..n |-> [Stem |-> i, Ext |-> IF i \in dirs THEN "/" ELSE ".jpg"]]

HistorySizes == {0, 2, DecodedLimit + 1, ListMaxKeys + 1}
InitialListings ==
    {Listing(n, dirs) : n \in HistorySizes, dirs \in {{}, {1}, {DecodedLimit + 1}}}

Init ==
    /\ fn \in Functions
    /\ req = NoEvent
    /\ resp = NoResponse
    /\ failed = ""
    /\ musics_table \in (IF fn = "music" THEN ExternalMusicsTables ELSE {EmptyStore})
    /\ musics_bucket = EmptyStore
    /\ issued = 0
    /\ uploadLog = <<>>
    /\ deletedOk = {}
    /\ user_settings_table \in
          (IF fn = "image" THEN ExternalSettingsTables ELSE {EmptyStore})
    /\ account_settings_table = EmptyStore
    /\ lastUpdate = EmptyStore
    /\ image_bucket = EmptyStore
    /\ imageKeys = [u \in Users |-> {}]
    /\ history_bucket \in (IF fn = "history" THEN InitialListings ELSE {<<>>})
    /\ history_results \in (IF fn = "history" THEN {{}, {1, 2}} ELSE {{}})
    /\ produced = 0

(***************************************************************************)
(* Invocations of the music function.                                      *)
(***************************************************************************)
\* lambda_handler(event, context) of functions/music
MusicInvoke(event, f) ==
    /\ fn = "music"
    /\ resp.kind = "none"
    /\ \E o \in {MusicHandle(event, musics_table, musics_bucket, uuid4(issued + 1),
                              issued + 1, f)} :
        LET uploading == /\ event.path = "/music" /\ event.httpMethod = "POST"
                         /\ \/ o.response.message = "Music uploaded successfully"
                            \/ o.failed \in {"put_object", "put_item"}
        IN
        /\ uploading => issued < MaxUploads
        /\ req' = event
        /\ resp' = o.response
        /\ failed' = o.failed
        /\ musics_table' = o.tbl
        /\ musics_bucket' = o.bkt
        /\ issued' = IF uploading THEN issued + 1 ELSE issued
        /\ uploadLog' = IF o.response.message = "Music uploaded successfully"
                        THEN Append(uploadLog, [sent |-> event.body.fields,
                                                returned |-> o.response.data])
                        ELSE uploadLog
        /\ deletedOk' = IF o.response.message = "Music deleted successfully"
                        THEN deletedOk \cup ({event.queryStringParameters.params["music_id"]}
                                              \cap {uuid4(i) : i \in 1..issued})
                        ELSE deletedOk
        /\ UNCHANGED <<fn, user_settings_table, settingsVars, imageVars, historyVars>>

\* The f-th collaborator call of the invocation raises (0: none does); each
\* action draws f up to the number of calls its operation can make.
\* uploads and reads come from u1 or from nobody; deletes from anyone
ReaderClaims == {NoClaims, ClaimsOf("u1")}

MusicGetById ==
    \E c \in ReaderClaims, q \in MusicGetQueries, f \in 0..3 :
        MusicInvoke(Event("GET", "/music", c, BodyAbsent, q), f)

MusicUpload ==
    \E c \in ReaderClaims, f \in 0..3, b \in MusicBodies :
        MusicInvoke(Event("POST", "/music", c, b, QsAbsent), f)

MusicDelete ==
    \E c \in ClaimsSet, q \in MusicQueries, f \in 0..5 :
        MusicInvoke(Event("DELETE", "/music", c, BodyAbsent, q), f)

MusicList ==
    \E c \in ReaderClaims, f \in 0..(2 + Cardinality(DOMAIN musics_table)) :
        MusicInvoke(Event("GET", "/music/list", c, BodyAbsent, QsAbsent), f)

MusicUnsupportedMethod ==
    \E c \in ReaderClaims, f \in 0..1,
       pm \in {<<"/music", "PATCH">>, <<"/music/list", "POST">>} :
        MusicInvoke(Event(pm[2], pm[1], c, BodyAbsent, QsAbsent), f)

MusicUnknownPath ==
    \E c \in ReaderClaims, f \in 0..1 :
        MusicInvoke(Event("GET", "/musics", c, BodyAbsent, QsAbsent), f)

\* a body that json.loads rejects, on every route
MusicMalformedBody ==
    \E c \in ReaderClaims,
       pm \in {<<"/music", "GET">>, <<"/music", "POST">>, <<"/music", "DELETE">>,
               <<"/music", "PATCH">>, <<"/music/list", "GET">>} :
        MusicInvoke(Event(pm[2], pm[1], c, BodyBadJson, QsAbsent), 0)

MusicNext ==
    \/ MusicGetById \/ MusicUpload \/ MusicDelete \/ MusicList
    \/ MusicUnsupportedMethod \/ MusicUnknownPath \/ MusicMalformedBody

(***************************************************************************)
(* Invocations of the user-settings function.                              *)
(***************************************************************************)
SettingsBodies ==
    {BodyAbsent}
    \cup {BodyObject(d) : d \in Incomplete({"username", "email", "music_id"},
                                           [username |-> "alice", email |-> "a@x", music_id |-> ""])}
    \cup {BodyObject([username |-> n, email |-> e, music_id |-> m]) :
            n \in Usernames, e \in Emails, m \in {"", "uuid1"}}

SettingsQueries ==
    {QsAbsent, QsNull, QsMap(EmptyDict)} \cup {QsMap([user_id |-> u]) : u \in Users}

\* lambda_handler(event, context) of functions/user/settings
SettingsInvoke(event, f) ==
    /\ fn = "settings"
    /\ resp.kind = "none"
    /\ \E o \in {SettingsHandle(event, account_settings_table, f)} :
        /\ req' = event
        /\ resp' = o.response
        /\ failed' = o.failed
        /\ account_settings_table' = o.tbl
        /\ lastUpdate' = IF o.response.message = "Settings updated"
                         THEN Put(lastUpdate, event.claims.sub,
                                  [fields |-> event.body.fields,
                                   rewritten |-> event.claims.sub \in DOMAIN lastUpdate])
                         ELSE lastUpdate
    /\ UNCHANGED <<fn, musicVars, user_settings_table, imageVars, historyVars>>

SettingsGet ==
    \E c \in ClaimsSet, q \in SettingsQueries, f \in 0..1 :
        SettingsInvoke(Event("GET", "/user/settings", c, BodyAbsent, q), f)

SettingsUpdate ==
    \E c \in ClaimsSet, b \in SettingsBodies, f \in 0..1 :
        SettingsInvoke(Event("PUT", "/user/settings", c, b, QsAbsent), f)

\* an update whose body and query string name the user_id of somebody else
SettingsUpdateNamingOther ==
    \E c \in ClaimsSet, n \in Usernames, f \in 0..1 :
        SettingsInvoke(Event("PUT", "/user/settings", c,
                             BodyObject([username |-> n, email |-> "a@x", music_id |-> "",
                                         user_id |-> "u2"]),
                             QsMap([user_id |-> "u2"])), f)

SettingsUnsupportedMethod ==
    \E c \in ReaderClaims, m \in {"POST", "DELETE"} :
        SettingsInvoke(Event(m, "/user/settings", c, BodyAbsent, QsAbsent), 0)

\* API Gateway routes only /user/settings here, but the handler takes any event
SettingsOtherPath ==
    \E c \in ReaderClaims, q \in {QsAbsent, QsMap([user_id |-> "u1"])} :
        SettingsInvoke(Event("GET", "/music", c, BodyAbsent, q), 0)

SettingsMalformedBody ==
    \E c \in ReaderClaims, m \in {"GET", "PUT", "POST"} :
        SettingsInvoke(Event(m, "/user/settings", c, BodyBadJson, QsAbsent), 0)

SettingsNext ==
    \/ SettingsGet \/ SettingsUpdate \/ SettingsUpdateNamingOther
    \/ SettingsUnsupportedMethod
    \/ SettingsOtherPath \/ SettingsMalformedBody

(***************************************************************************)
(* Invocations of the user-image function.                                 *)
(***************************************************************************)
ImageBodies ==
    {BodyAbsent, BodyObject(EmptyDict)}
    \cup {BodyObject([image |-> m]) : m \in Base64Texts}

\* mutant: one handler object serves every invocation, so that a request
\* without claims is handled with the identity an earlier request left in it
ImageInvokeSharedHandler(event, f) ==
    /\ fn = "image"
    /\ resp.kind = "none"
    /\ LET earlier == {u \in Users : imageKeys[u] # {}}
           kept == IF event.claims = NoClaims /\ earlier # {}
                   THEN [event EXCEPT !.claims = ClaimsOf(CHOOSE u \in earlier : TRUE)]
                   ELSE event
       IN  \E o \in {ImageHandle(kept, user_settings_table, image_bucket, f)} :
            /\ req' = event
            /\ resp' = o.response
            /\ failed' = o.failed
            /\ image_bucket' = o.bkt
            /\ imageKeys' =
                 LET written == {k \in DOMAIN o.bkt :
                                   k \notin DOMAIN image_bucket \/ o.bkt[k] # image_bucket[k]}
                     linked == IF o.response.statusCode = 200
                               THEN {o.response.data.image_url.Key} ELSE {}
                 IN  IF event.claims = NoClaims THEN imageKeys
                     ELSE [imageKeys EXCEPT ![event.claims.sub] = @ \cup written \cup linked]
    /\ UNCHANGED <<fn, musicVars, user_settings_table, settingsVars, historyVars>>

\* lambda_handler(event, context) of functions/user/image
ImageInvoke(event, f) ==
    /\ fn = "image"
    /\ resp.kind = "none"
    /\ \E o \in {ImageHandle(event, user_settings_table, image_bucket, f)} :
        /\ req' = event
        /\ resp' = o.response
        /\ failed' = o.failed
        /\ image_bucket' = o.bkt
        /\ imageKeys' =
             LET written == {k \in DOMAIN o.bkt :
                               k \notin DOMAIN image_bucket \/ o.bkt[k] # image_bucket[k]}
                 linked == IF o.response.statusCode = 200
                           THEN {o.response.data.image_url.Key} ELSE {}
             IN  IF event.claims = NoClaims THEN imageKeys
                 ELSE [imageKeys EXCEPT ![event.claims.sub] = @ \cup written \cup linked]
    /\ UNCHANGED <<fn, musicVars, user_settings_table, settingsVars, historyVars>>

ImageGet ==
    \E c \in ClaimsSet, f \in 0..3 :
        ImageInvoke(Event("GET", "/user/image", c, BodyAbsent, QsAbsent), f)

ImageUpdate ==
    \E c \in ClaimsSet, b \in ImageBodies, f \in 0..4 :
        ImageInvoke(Event("POST", "/user/image", c, b, QsAbsent), f)

ImageUnsupportedMethod ==
    \E c \in ReaderClaims, m \in {"PUT", "DELETE"}, f \in 0..1 :
        ImageInvoke(Event(m, "/user/image", c, BodyAbsent, QsAbsent), f)

ImageOtherPath ==
    \E c \in ReaderClaims, f \in 0..1 :
        ImageInvoke(Event("GET", "/music", c, BodyAbsent, QsAbsent), f)

ImageMalformedBody ==
    \E c \in ReaderClaims, m \in {"GET", "POST", "PUT"} :
        ImageInvoke(Event(m, "/user/image", c, BodyBadJson, QsAbsent), 0)

ImageNext ==
    \/ ImageGet \/ ImageUpdate \/ ImageUnsupportedMethod
    \/ ImageOtherPath \/ ImageMalformedBody

(***************************************************************************)
(* Invocations of the history function, and the external producer.         *)
(***************************************************************************)
\* lambda_handler(event, context) of functions/history
HistoryInvoke(event, f) ==
    /\ fn = "history"
    /\ resp.kind = "none"
    /\ \E o \in {HistoryHandle(event, history_bucket, history_results, f)} :
        /\ req' = event
        /\ resp' = o.response
        /\ failed' = o.failed
    /\ UNCHANGED <<fn, musicVars, user_settings_table, settingsVars, imageVars,
                   historyVars>>

HistoryList ==
    \E c \in ReaderClaims, f \in 0..2 :
        HistoryInvoke(Event("GET", "/history/list", c, BodyAbsent, QsAbsent), f)

HistoryUnsupportedMethod ==
    \E c \in ReaderClaims, m \in {"POST", "DELETE"} :
        HistoryInvoke(Event(m, "/history/list", c, BodyAbsent, QsAbsent), 0)

HistoryUnknownPath ==
    \E c \in ReaderClaims, p \in {"/history", "/music"} :
        HistoryInvoke(Event("GET", p, c, BodyAbsent, QsAbsent), 0)

HistoryMalformedBody ==
    \E c \in ReaderClaims, pm \in {<<"/history/list", "GET">>, <<"/history", "GET">>} :
        HistoryInvoke(Event(pm[2], pm[1], c, BodyBadJson, QsAbsent), 0)

\* the producer outside this repository stores one more decoded image, or a
\* directory marker, under the next key
ProducerPut ==
    /\ fn = "history"
    /\ resp.kind = "none"
    /\ produced < MaxProduced
    /\ \E e \in {".jpg", "/"} :
         history_bucket' = Append(history_bucket,
                                  [Stem |-> Len(history_bucket) + 1, Ext |-> e])
    /\ produced' = produced + 1
    /\ UNCHANGED <<fn, req, resp, failed, musicVars, user_settings_table,
                   settingsVars, imageVars, history_results>>

HistoryNext ==
    \/ HistoryList \/ HistoryUnsupportedMethod \/ HistoryUnknownPath
    \/ HistoryMalformedBody \/ ProducerPut

\* lambda_handler returns: the response is delivered and the handler object,
\* with everything it held about the request, is dropped
Return ==
    /\ resp.kind # "none"
    /\ req' = NoEvent
    /\ resp' = NoResponse
    /\ failed' = ""
    /\ UNCHANGED <<fn, musicVars, user_settings_table, settingsVars, imageVars,
                   historyVars>>

Next == MusicNext \/ SettingsNext \/ ImageNext \/ HistoryNext \/ Return

Spec == Init /\ [][Next]_vars

(***************************************************************************)
(* Vocabulary of the properties.                                           *)
(***************************************************************************)
storeVars == <<musics_table, musics_bucket, user_settings_table,
               account_settings_table, image_bucket, history_bucket, history_results>>

Unauthorized == "Unauthorized: No user ID found in claims"

\* the last invocation has returned r: a 400 envelope with error e
Failure(r, e) == r.kind = "response" /\ r.statusCode = 400 /\ r.error = e
\* ... a 200 envelope with message m
Success(r, m) == r.kind = "response" /\ r.statusCode = 200 /\ r.message = m

\* an invocation has just run (its response or fault is in resp)
Invoked == resp.kind # "none"

\* the event's body parses and no collaborator call raised
Served(e, fl) == e.body.kind # "badjson" /\ fl = ""

\* the paths API Gateway routes to each function, and the methods each path serves
OwnPaths(f) ==
    CASE f = "music" -> {"/music", "/music/list"}
      [] f = "settings" -> {"/user/settings"}
      [] f = "image" -> {"/user/image"}
      [] f = "history" -> {"/history/list"}
ServedMethods(f, path) ==
    CASE f = "music" /\ path = "/music" -> {"GET", "POST", "DELETE"}
      [] f = "music" /\ path # "/music" -> {"GET"}
      [] f = "settings" -> {"GET", "PUT"}
      [] f = "image" -> {"GET", "POST"}
      [] f = "history" -> {"GET"}

\* the mutating or personalized operations of C1
Personalized(f, e) ==
    \/ f = "music" /\ e.path = "/music" /\ e.httpMethod \in {"POST", "DELETE"}
    \/ f = "settings" /\ e.httpMethod = "PUT"
    \/ f = "image" /\ e.httpMethod \in {"GET", "POST"}

QueryMusicId(e) ==
    IF "music_id" \in DOMAIN e.queryStringParameters.params
    THEN e.queryStringParameters.params["music_id"] ELSE None

(***************************************************************************)
(* C1.  A request without identity claims (and with a body that parses) to *)
(* POST /music, DELETE /music, PUT user settings, GET or POST user image   *)
(* is answered with status 400 and the error "Unauthorized: No user ID     *)
(* found in claims", and leaves every table and bucket as it was.          *)
(***************************************************************************)
C1_UnauthorizedRejected ==
    [][(/\ Invoked'
        /\ req'.claims = NoClaims
        /\ Personalized(fn, req')
        /\ req'.body.kind # "badjson")
       => (Failure(resp', Unauthorized) /\ UNCHANGED storeVars)]_vars

C1_Witness ==
    /\ fn = "music" /\ req.httpMethod = "POST" /\ req.claims = NoClaims
    /\ req.body.kind = "object"
    /\ DOMAIN req.body.fields = {"music", "title", "extension"}
    /\ Failure(resp, Unauthorized)

(***************************************************************************)
(* C2.  Whenever a collaborator call raises, the invocation still returns  *)
(* a status-400 failure envelope with an error message.                    *)
(* Stated as the claim; the code violates it (e.g. scan in GET /music/list *)
(* is called outside any try block).                                       *)
(***************************************************************************)
C2_CollaboratorFailureIsEnvelope ==
    (Invoked /\ failed # "")
    => (resp.kind = "response" /\ resp.statusCode = 400 /\ resp.error # "")

(***************************************************************************)
(* C3.  Every malformed event (null query-string map on GET/DELETE /music, *)
(* a body that is not JSON, a music or image field that is not base64) is  *)
(* answered with status 400 and an error message.                          *)
(* Stated as the claim; the code violates it.                              *)
(***************************************************************************)
Malformed(f, e) ==
    \/ e.body.kind = "badjson"
    \/ /\ f = "music" /\ e.path = "/music" /\ e.httpMethod \in {"GET", "DELETE"}
       /\ e.queryStringParameters.kind = "null"
    \/ /\ f = "music" /\ e.path = "/music" /\ e.httpMethod = "POST"
       /\ "music" \in DOMAIN e.body.fields /\ ~B64Ok(e.body.fields["music"])
    \/ /\ f = "image" /\ e.httpMethod = "POST"
       /\ "image" \in DOMAIN e.body.fields /\ ~B64Ok(e.body.fields["image"])

C3_MalformedInputIsEnvelope ==
    (Invoked /\ Malformed(fn, req))
    => (resp.kind = "response" /\ resp.statusCode = 400 /\ resp.error # "")

(***************************************************************************)
(* C4.  A request whose path is not one of the function's own paths is     *)
(* answered with status 400, an error saying the path is unsupported, and  *)
(* the CORS headers.                                                       *)
(* Stated as the claim; the code violates it.                              *)
(***************************************************************************)
C4_UnknownPathIsUnsupported ==
    (Invoked /\ req.path \notin OwnPaths(fn) /\ Served(req, failed))
    => /\ resp.kind = "response" /\ resp.statusCode = 400
       /\ resp.error \in {"Unsupported path", "Unsupported path: " \o req.path}
       /\ resp.headers # NoHeaders

(***************************************************************************)
(* C5.  A request to one of the function's own paths with a method that    *)
(* path does not serve (its body parsing, and the identity lookup not      *)
(* raising) is answered with status 400 and the error "Unsupported HTTP    *)
(* method", and leaves every table and bucket as it was.                   *)
(***************************************************************************)
C5_UnsupportedMethodRejected ==
    [][(/\ Invoked'
        /\ req'.path \in OwnPaths(fn)
        /\ req'.httpMethod \notin ServedMethods(fn, req'.path)
        /\ Served(req', failed'))
       => (Failure(resp', "Unsupported HTTP method") /\ UNCHANGED storeVars)]_vars

C5_Witness ==
    /\ fn = "music" /\ req.path = "/music" /\ req.httpMethod = "PATCH"
    /\ req.claims # NoClaims
    /\ Failure(resp, "Unsupported HTTP method")

(***************************************************************************)
(* C6.  Round trip: after an authenticated POST /music with title T has    *)
(* returned a record, a GET /music with the returned music_id (the id not  *)
(* deleted since, the store answering) returns status 200 with the same    *)
(* music_id, title T, the same s3_key, and a presigned URL that is not     *)
(* null and is signed for the music bucket and that key.                   *)
(***************************************************************************)
GetsMusic(m) ==
    /\ Invoked /\ fn = "music" /\ req.httpMethod = "GET" /\ req.path = "/music"
    /\ QueryMusicId(req) = m
    /\ Served(req, failed)

C6_UploadGetRoundTrip ==
    \A i \in 1..Len(uploadLog) :
        LET up == uploadLog[i] IN
        (GetsMusic(up.returned.music_id) /\ up.returned.music_id \notin deletedOk)
        => /\ Success(resp, "Music retrieved successfully")
           /\ resp.data.music_id = up.returned.music_id
           /\ resp.data.title = up.sent["title"]
           /\ resp.data.s3_key = up.returned.s3_key
           /\ resp.data.presigned_url # NoneUrl
           /\ resp.data.presigned_url.Bucket = musics_storage_bucket_name
           /\ resp.data.presigned_url.Key = up.returned.s3_key

C6_Witness ==
    /\ Len(uploadLog) >= 1
    /\ uploadLog[1].sent["title"] = "a_b"
    /\ GetsMusic(uploadLog[1].returned.music_id)
    /\ Success(resp, "Music retrieved successfully")

(***************************************************************************)
(* C7.  Delete-then-get: once an authenticated DELETE /music for music_id  *)
(* M has returned success, every later GET /music for M (the store         *)
(* answering) returns status 400 with the error "Music not found".         *)
(***************************************************************************)
C7_DeleteThenGetNotFound ==
    \A m \in deletedOk : GetsMusic(m) => Failure(resp, "Music not found")

C7_Witness ==
    \E i \in 1..Len(uploadLog) :
        /\ uploadLog[i].returned.music_id \in deletedOk
        /\ GetsMusic(uploadLog[i].returned.music_id)
        /\ Failure(resp, "Music not found")

(***************************************************************************)
(* C8.  The records returned by successful uploads, also uploads of the    *)
(* same title and extension, have pairwise distinct music_id and pairwise  *)
(* distinct s3_key, and a successful upload leaves every object and every  *)
(* table record that was there before it as it was.                        *)
(***************************************************************************)
C8_DistinctUploads ==
    \A i, j \in 1..Len(uploadLog) :
        i # j => /\ uploadLog[i].returned.music_id # uploadLog[j].returned.music_id
                 /\ uploadLog[i].returned.s3_key # uploadLog[j].returned.s3_key

C8_NoOverwrite ==
    Success(resp', "Music uploaded successfully")
    => /\ \A k \in DOMAIN musics_bucket :
            k \in DOMAIN musics_bucket' /\ musics_bucket'[k] = musics_bucket[k]
       /\ \A m \in DOMAIN musics_table :
            m \in DOMAIN musics_table' /\ musics_table'[m] = musics_table[m]

C8_UploadsNeverCollide == []C8_DistinctUploads /\ [][C8_NoOverwrite]_vars

C8_Witness ==
    /\ Len(uploadLog) = 2
    /\ uploadLog[1].sent = uploadLog[2].sent
    /\ Cardinality(DOMAIN musics_bucket) = 2
    /\ Success(resp, "Music uploaded successfully")

(***************************************************************************)
(* C9.  An authenticated settings update (PUT, the body parsing, the store *)
(* answering) whose body lacks username, email or music_id is answered     *)
(* with status 400 and "Missing required field: <name>", the name being    *)
(* the first missing one in the order username, email, music_id, and       *)
(* leaves the settings table as it was; with all three present the record  *)
(* keyed by the caller's user_id holds the supplied values afterwards.     *)
(***************************************************************************)
FirstMissing(body) ==
    LET missing == {k \in {"username", "email", "music_id"} : k \notin DOMAIN body}
    IN  IF "username" \in missing THEN "username"
        ELSE IF "email" \in missing THEN "email"
        ELSE IF "music_id" \in missing THEN "music_id"
        ELSE ""

C9_SettingsUpdateValidated ==
    [][(/\ Invoked' /\ fn = "settings" /\ req'.httpMethod = "PUT"
        /\ req'.claims # NoClaims
        /\ Served(req', failed'))
       => LET body == req'.body.fields
              uid == req'.claims.sub
          IN  IF FirstMissing(body) # ""
              THEN /\ Failure(resp', "Missing required field: " \o FirstMissing(body))
                   /\ UNCHANGED account_settings_table
              ELSE /\ Success(resp', "Settings updated")
                   /\ uid \in DOMAIN account_settings_table'
                   /\ account_settings_table'[uid] =
                        [user_id |-> uid, username |-> body["username"],
                         email |-> body["email"], music_id |-> body["music_id"]]]_vars

C9_WitnessMissing ==
    /\ fn = "settings" /\ req.httpMethod = "PUT" /\ req.claims # NoClaims
    /\ req.body.kind = "object" /\ DOMAIN req.body.fields = {"username"}
    /\ Failure(resp, "Missing required field: email")
    /\ "u1" \in DOMAIN account_settings_table

(***************************************************************************)
(* C10.  GET /history/list returns its items in strictly descending order  *)
(* of storage key, min(40, n) of them, namely the greatest keys among the  *)
(* n objects under decoded/ whose key does not end in "/", each with a     *)
(* presigned URL that is not null.                                         *)
(* Stated as the claim; the code violates it once the listing has more     *)
(* keys than one page of list_objects holds.                               *)
(***************************************************************************)
ListsHistory ==
    /\ Invoked /\ fn = "history" /\ req.httpMethod = "GET" /\ req.path = "/history/list"
    /\ Served(req, failed)

\* the stems of the stored objects that are not directory markers
StoredFiles ==
    {history_bucket[i].Stem :
        i \in {j \in 1..Len(history_bucket) : history_bucket[j].Ext # "/"}}

C10_HistoryIsLatestForty ==
    ListsHistory
    => /\ Success(resp, "History list retrieved successfully")
       /\ LET items == resp.data.history_list
              shown == {items[i].decoded.stem : i \in 1..Len(items)}
              n == Cardinality(StoredFiles)
          IN  /\ Len(items) = IF n < 40 THEN n ELSE 40
              /\ \A i \in 1..(Len(items) - 1) :
                    items[i].decoded.stem > items[i + 1].decoded.stem
              /\ shown \subseteq StoredFiles
              /\ \A t \in StoredFiles \ shown : \A k \in shown : t < k
              /\ \A i \in 1..Len(items) : items[i].decoded.presigned_url # NoneUrl

\* the same, for listings that fit in one page of list_objects
C10_HistoryWithinOnePage ==
    Len(history_bucket) <= ListMaxKeys => C10_HistoryIsLatestForty

C10_WitnessTruncated ==
    /\ ListsHistory
    /\ Cardinality(StoredFiles) = DecodedLimit + 1
    /\ Len(history_bucket) = DecodedLimit + 2
    /\ Len(resp.data.history_list) = DecodedLimit

(***************************************************************************)
(* C11.  Every response handle() returns, success or failure, on every     *)
(* path and method, carries the three CORS headers, the origin being "*",  *)
(* and all responses of one handler carry the same header values.          *)
(***************************************************************************)
HandlerHeaders(f) ==
    CASE f = "music" -> MusicHeaders
      [] f = "settings" -> SettingsHeaders
      [] f = "image" -> ImageHeaders
      [] f = "history" -> HistoryHeaders

C11_CorsHeadersOnEveryResponse ==
    resp.kind = "response"
    => /\ resp.headers # NoHeaders
       /\ DOMAIN resp.headers = {"AllowHeaders", "AllowOrigin", "AllowMethods"}
       /\ resp.headers.AllowOrigin = "*"
       /\ resp.headers.AllowHeaders # ""
       /\ resp.headers.AllowMethods # {}
       /\ resp.headers = HandlerHeaders(fn)

C11_WitnessFailure ==
    /\ fn = "music" /\ req.path = "/music/list" /\ req.httpMethod = "POST"
    /\ Failure(resp, "Unsupported HTTP method")
    /\ resp.headers = MusicHeaders

(***************************************************************************)
(* C12.  The Access-Control-Allow-Methods header of a response names every *)
(* HTTP method the handler dispatches to an operation on the called path.  *)
(* Stated as the claim; the code violates it on /music, whose header       *)
(* leaves DELETE out.                                                      *)
(***************************************************************************)
C12_AllowMethodsCoverDispatch ==
    (resp.kind = "response" /\ req.path \in OwnPaths(fn))
    => ServedMethods(fn, req.path) \subseteq resp.headers.AllowMethods

(***************************************************************************)
(* C13.  An authenticated DELETE /music for a music_id that is not in the  *)
(* musics table is answered with a status-400 failure envelope.            *)
(* Stated as the claim, for ids that were never created; the code violates *)
(* it (the answer is 200 "Music deleted successfully").                    *)
(***************************************************************************)
DeletesAbsent ==
    /\ Invoked /\ fn = "music" /\ req.httpMethod = "DELETE" /\ req.path = "/music"
    /\ req.claims # NoClaims
    /\ Served(req, failed)
    /\ Truthy(QueryMusicId(req))
    /\ QueryMusicId(req) \notin {uuid4(i) : i \in 1..issued}
    /\ QueryMusicId(req) \notin DOMAIN musics_table

C13_DeleteAbsentIsFailure ==
    DeletesAbsent => (resp.kind = "response" /\ resp.statusCode = 400)

(***************************************************************************)
(* C14.  Settings update overwrites unconditionally, last writer wins:     *)
(* after any successful updates by one user_id the stored username, email  *)
(* and music_id are all those of the update applied last, never a mix, and *)
(* an update with all three fields is never rejected because of what the   *)
(* record held before.                                                     *)
(***************************************************************************)
C14_StoredIsLastWrite ==
    \A u \in DOMAIN lastUpdate :
        /\ u \in DOMAIN account_settings_table
        /\ account_settings_table[u].username = lastUpdate[u].fields["username"]
        /\ account_settings_table[u].email = lastUpdate[u].fields["email"]
        /\ account_settings_table[u].music_id = lastUpdate[u].fields["music_id"]

C14_NeverRejectedForContent ==
    (/\ Invoked' /\ fn = "settings" /\ req'.httpMethod = "PUT"
     /\ req'.claims # NoClaims
     /\ Served(req', failed')
     /\ FirstMissing(req'.body.fields) = "")
    => Success(resp', "Settings updated")

C14_LastWriterWins ==
    []C14_StoredIsLastWrite /\ [][C14_NeverRejectedForContent]_vars

C14_WitnessOverwrite ==
    /\ Invoked /\ fn = "settings" /\ Success(resp, "Settings updated")
    /\ req.claims.sub = "u1"
    /\ lastUpdate["u1"].rewritten
    /\ account_settings_table["u1"].username = "bob"
    /\ account_settings_table["u1"].music_id = "uuid1"
    /\ "u2" \in DOMAIN lastUpdate

(***************************************************************************)
(* C15.  Getting and updating personal settings both require an identity:  *)
(* a GET or PUT of the settings handler without claims is rejected with a  *)
(* failure envelope, and the record a GET returns is the caller's own.     *)
(* Stated as the claim; the code violates it (GET reads the user_id of the *)
(* query string and never looks at the claims).                            *)
(***************************************************************************)
C15_SettingsRequireIdentity ==
    (/\ Invoked /\ fn = "settings" /\ req.httpMethod \in {"GET", "PUT"}
     /\ Served(req, failed))
    => /\ req.claims = NoClaims => Failure(resp, resp.error)
       /\ Success(resp, "Settings retrieved") => resp.data.user_id = req.claims.sub

(***************************************************************************)
(* C16.  GET /music/list and GET /music are public: on the same store the  *)
(* response (status, message, error, data) is the same whatever identity   *)
(* claims the request carries, or none, and it is never the unauthorized   *)
(* failure.                                                                *)
(***************************************************************************)
ReadsMusic ==
    /\ Invoked /\ fn = "music" /\ req.httpMethod = "GET"
    /\ req.path \in {"/music", "/music/list"}
    /\ Served(req, failed)

\* what the request of the last invocation is answered when it carries claims c
\* (reads leave the store as it was, so the store is the one that was read)
AnsweredAs(c) ==
    MusicHandle([req EXCEPT !.claims = c], musics_table, musics_bucket,
                uuid4(issued + 1), issued + 1, 0).response

C16_ReadsArePublic ==
    ReadsMusic
    => /\ \A c \in ClaimsSet : AnsweredAs(c) = resp
       /\ ~Failure(resp, Unauthorized)

C16_WitnessAnonymous ==
    /\ ReadsMusic /\ req.claims = NoClaims
    /\ req.path = "/music"
    /\ Success(resp, "Music retrieved successfully")
    /\ resp.data.user_id = "u1"

(***************************************************************************)
(* C17.  The profile-image storage key is a function of the identity: all  *)
(* GETs and POSTs of the image handler by one subject id, over any         *)
(* sequence of operations, use one and the same key, and that key reads    *)
(* roles/<name>.jpg.                                                       *)
(***************************************************************************)
C17_OneImageKeyPerIdentity ==
    \A u \in Users :
        /\ Cardinality(imageKeys[u]) <= 1
        /\ \A k \in imageKeys[u] :
              \E n \in Usernames \cup {""} : k = "roles/" \o n \o ".jpg"

C17_WitnessPostThenGet ==
    /\ Invoked /\ fn = "image" /\ req.httpMethod = "GET" /\ req.claims = ClaimsOf("u1")
    /\ Success(resp, "Image found")
    /\ imageKeys["u1"] = {resp.data.image_url.Key}
    /\ resp.data.image_url.Key \in DOMAIN image_bucket
    /\ imageKeys["u2"] # {}

(***************************************************************************)
(* C18.  Presigned links are never persisted and expire after one hour: in *)
(* every reachable state no item of the musics table or of the settings    *)
(* table and no stored object holds a presigned URL, and every presigned   *)
(* URL a handler generates is requested with a validity of 3600 seconds.   *)
(***************************************************************************)
\* the presigned URLs in the response of the last invocation
LinksReturned ==
    IF resp.kind # "response" \/ resp.statusCode # 200 THEN {}
    ELSE IF resp.message = "Music retrieved successfully" THEN {resp.data.presigned_url}
    ELSE IF resp.message = "Music list retrieved successfully"
         THEN {m.presigned_url : m \in resp.data.music_list}
    ELSE IF resp.message \in {"Image found", "Image updated successfully"}
         THEN {resp.data.image_url}
    ELSE IF resp.message = "History list retrieved successfully"
         THEN {resp.data.history_list[i].decoded.presigned_url :
                 i \in 1..Len(resp.data.history_list)}
    ELSE {}

C18_LinksDerivedNotStored ==
    /\ \A m \in DOMAIN musics_table :
          DOMAIN musics_table[m]
              \subseteq {"music_id", "title", "s3_key", "user_id", "created_at"}
    /\ \A u \in DOMAIN account_settings_table :
          DOMAIN account_settings_table[u]
              \subseteq {"user_id", "username", "email", "music_id"}
    /\ \A k \in DOMAIN musics_bucket :
          /\ DOMAIN musics_bucket[k] = {"Body", "ContentType"}
          /\ musics_bucket[k].Body \in Base64Texts
    /\ \A k \in DOMAIN image_bucket :
          /\ DOMAIN image_bucket[k] = {"Body", "ContentType"}
          /\ image_bucket[k].Body \in Base64Texts
    /\ \A url \in LinksReturned \ {NoneUrl} : url.ExpiresIn = 3600

C18_WitnessLink ==
    /\ Invoked /\ fn = "music" /\ Success(resp, "Music retrieved successfully")
    /\ resp.data.presigned_url # NoneUrl
    /\ resp.data.presigned_url.ExpiresIn = 3600
    /\ resp.data.music_id \in DOMAIN musics_table
    /\ "presigned_url" \notin DOMAIN musics_table[resp.data.music_id]

(***************************************************************************)
(* C19.  Link generation returns no link exactly when the storage key is   *)
(* empty or missing, without calling object storage, and a signed URL for  *)
(* the key otherwise; a music record without an s3_key is returned and     *)
(* listed with presigned_url null instead of causing a failure.            *)
(***************************************************************************)
\* the link of a returned track is null iff its key is empty, else signed for it
LinkMatchesKey(m) ==
    IF Truthy(m.s3_key)
    THEN m.presigned_url = PresignedUrl(musics_storage_bucket_name, m.s3_key)
    ELSE m.presigned_url = NoneUrl

C19_NoLinkIffNoKey ==
    /\ Success(resp, "Music retrieved successfully") => LinkMatchesKey(resp.data)
    /\ Success(resp, "Music list retrieved successfully")
       => /\ \A m \in resp.data.music_list : LinkMatchesKey(m)
          /\ {m.music_id : m \in resp.data.music_list} = DOMAIN musics_table
    \* a track without a key: no signing call is made, so none can fail
    /\ (/\ Invoked /\ fn = "music" /\ req.httpMethod = "GET" /\ req.path = "/music"
        /\ QueryMusicId(req) = "legacy" /\ "legacy" \in DOMAIN musics_table
        /\ failed # "get_item")
       => (Success(resp, "Music retrieved successfully") /\ resp.data.presigned_url = NoneUrl)
    /\ (Invoked /\ fn = "music" /\ failed = "generate_presigned_url")
       => \E m \in DOMAIN musics_table : Truthy(Get(musics_table[m], "s3_key", ""))
    /\ Success(resp, "History list retrieved successfully")
       => \A i \in 1..Len(resp.data.history_list) :
             LET d == resp.data.history_list[i].decoded
             IN  d.presigned_url = PresignedUrl(history_bucket_name, d.s3_key)

C19_WitnessListedWithoutLink ==
    /\ Success(resp, "Music list retrieved successfully")
    /\ \E m \in resp.data.music_list : m.music_id = "legacy" /\ m.presigned_url = NoneUrl
    /\ \E m \in resp.data.music_list : m.presigned_url # NoneUrl

(***************************************************************************)
(* C20.  A track record is immutable between its creation and its          *)
(* deletion: no step of any handler changes a record that stays in the     *)
(* musics table, and the only steps that change the table are a            *)
(* successful upload, which adds one record under its new music_id, and a  *)
(* successful delete, which removes the record of the music_id it names.   *)
(***************************************************************************)
C20_RecordsKept ==
    \A m \in (DOMAIN musics_table) \cap (DOMAIN musics_table') :
        musics_table'[m] = musics_table[m]

C20_OnlyUploadAndDelete ==
    musics_table' # musics_table
    => \/ /\ fn = "music" /\ req'.httpMethod = "POST" /\ req'.path = "/music"
          /\ Success(resp', "Music uploaded successfully")
          /\ resp'.data.music_id \notin DOMAIN musics_table
          /\ musics_table' = Put(musics_table, resp'.data.music_id, resp'.data)
       \/ /\ fn = "music" /\ req'.httpMethod = "DELETE" /\ req'.path = "/music"
          /\ req'.claims # NoClaims
          /\ QueryMusicId(req') \in DOMAIN musics_table
          /\ musics_table' = Remove(musics_table, QueryMusicId(req'))

C20_TrackImmutable == [][C20_RecordsKept /\ C20_OnlyUploadAndDelete]_vars

C20_WitnessDeleteKeepsOthers ==
    /\ Invoked /\ fn = "music" /\ Success(resp, "Music deleted successfully")
    /\ deletedOk = {uuid4(1)}
    /\ uuid4(1) \notin DOMAIN musics_table
    /\ DOMAIN musics_table = {uuid4(2), "legacy"}
    /\ musics_table[uuid4(2)] = uploadLog[2].returned

(***************************************************************************)
(* C21.  Invocations are independent and stateless: what an invocation     *)
(* returns and writes is what the handler computes from the request event  *)
(* and the contents of the tables and buckets when it starts (given the    *)
(* fresh music id and which collaborator call, if any, raises), whatever   *)
(* was invoked before; and a request that carries no claims is never       *)
(* handled with the identity of an earlier request: it writes nothing and  *)
(* is not answered with an image link.                                     *)
(***************************************************************************)
\* the numbers of the collaborator call that may raise in one invocation
FaultPoints == 0..(5 + Cardinality(DOMAIN musics_table))

\* lambda_handler, run on event e in the current state with call f raising,
\* returns r with the stores st and the failed call fl
IsOutcome(e, f, r, fl, st) ==
    CASE fn = "music" ->
           LET o == MusicHandle(e, musics_table, musics_bucket, uuid4(issued + 1),
                                issued + 1, f)
           IN  /\ r = o.response /\ fl = o.failed
               /\ st = <<o.tbl, o.bkt, account_settings_table, image_bucket>>
      [] fn = "settings" ->
           LET o == SettingsHandle(e, account_settings_table, f)
           IN  /\ r = o.response /\ fl = o.failed
               /\ st = <<musics_table, musics_bucket, o.tbl, image_bucket>>
      [] fn = "image" ->
           LET o == ImageHandle(e, user_settings_table, image_bucket, f)
           IN  /\ r = o.response /\ fl = o.failed
               /\ st = <<musics_table, musics_bucket, account_settings_table, o.bkt>>
      [] fn = "history" ->
           LET o == HistoryHandle(e, history_bucket, history_results, f)
           IN  /\ r = o.response /\ fl = o.failed
               /\ st = <<musics_table, musics_bucket, account_settings_table,
                         image_bucket>>

C21_OutcomeFromEventAndStores ==
    Invoked' =>
        \E f \in FaultPoints :
            IsOutcome(req', f, resp', failed',
                      <<musics_table', musics_bucket', account_settings_table',
                        image_bucket'>>)

C21_NoIdentityWithoutClaims ==
    (Invoked' /\ req'.claims = NoClaims) =>
        /\ <<musics_table', musics_bucket', account_settings_table', image_bucket'>>
             = <<musics_table, musics_bucket, account_settings_table, image_bucket>>
        /\ fn = "image" => resp'.statusCode # 200

C22_UpdateReadByOtherHandlers ==
    \A u \in DOMAIN lastUpdate :
        /\ u \in DOMAIN user_settings_table
        /\ ImageResolveUsername(ClaimsOf(u), user_settings_table)
             = lastUpdate[u].fields.username

(***************************************************************************)
(* C23.  In a history listing that is served, the results of each item are *)
(* read from the key made from the item's image key by putting "results/"  *)
(* for "decoded/", dropping the extension and appending "_match.json".     *)
(* When that object is missing, the listing is still answered 200 with     *)
(* every item of the listing, that item's results being an error payload   *)
(* and the results of the items whose object exists being unaffected.      *)
(***************************************************************************)
\* decoded_key.replace("decoded/", "results/"), os.path.splitext(...)[0] and
\* + "_match.json", on a key decoded/<name>.jpg
SubstitutedKey(s3_key) ==
    "results/" \o SubSeq(s3_key, Len("decoded/") + 1, Len(s3_key) - Len(".jpg"))
               \o "_match.json"

\* the files of the first page of the listing
ListedFiles ==
    {ListObjects(history_bucket)[i].Stem :
        i \in {j \in 1..Len(ListObjects(history_bucket)) :
                 ListObjects(history_bucket)[j].Ext # "/"}}

C23_MissingResultsStayLocal ==
    ListsHistory
    => /\ Success(resp, "History list retrieved successfully")
       /\ LET items == resp.data.history_list
              n == Cardinality(ListedFiles)
          IN  /\ Len(items) = IF n < DecodedLimit THEN n ELSE DecodedLimit
              /\ \A i \in 1..Len(items) :
                    /\ items[i].results.key = SubstitutedKey(items[i].decoded.s3_key)
                    /\ items[i].results.error = "" <=> items[i].decoded.stem \in history_results

\* a full listing in which the two oldest results exist and the others do not
C23_WitnessSomeMissing ==
    /\ ListsHistory /\ resp.statusCode = 200
    /\ Len(resp.data.history_list) = DecodedLimit
    /\ \E i, j \in 1..Len(resp.data.history_list) :
          /\ resp.data.history_list[i].results.error = ""
          /\ resp.data.history_list[j].results.error # ""

(***************************************************************************)
(* C24.  A POST /music with identity claims that is served and whose body  *)
(* lacks "music", "title" or "extension" is answered with status 400 and   *)
(* the error naming the first field that is missing, in that order, and    *)
(* leaves the musics table and the music bucket as they were; a POST       *)
(* /music changes the table or the bucket only when its body has all       *)
(* three fields.                                                           *)
(***************************************************************************)
UploadFields == <<"music", "title", "extension">>
UploadFieldError ==
    [music |-> "Music data is required", title |-> "Title is required",
     extension |-> "Extension is required"]

\* the first field of UploadFields that body d lacks
FirstAbsentUploadField(d) ==
    UploadFields[CHOOSE i \in 1..3 :
                    /\ UploadFields[i] \notin DOMAIN d
                    /\ \A j \in 1..(i - 1) : UploadFields[j] \in DOMAIN d]

PostsMusic(e) == e.httpMethod = "POST" /\ e.path = "/music"

C24_MissingFieldRejected ==
    (/\ Invoked' /\ fn = "music" /\ PostsMusic(req') /\ req'.claims # NoClaims
     /\ Served(req', failed')
     /\ \E k \in {"music", "title", "extension"} : k \notin DOMAIN req'.body.fields)
    => /\ Failure(resp', UploadFieldError[FirstAbsentUploadField(req'.body.fields)])
       /\ UNCHANGED <<musics_table, musics_bucket>>

C24_OnlyCompleteBodiesStore ==
    (/\ Invoked' /\ fn = "music" /\ PostsMusic(req')
     /\ <<musics_table, musics_bucket>>' # <<musics_table, musics_bucket>>)
    => {"music", "title", "extension"} \subseteq DOMAIN req'.body.fields

C24_UploadFieldsValidated ==
    [][C24_MissingFieldRejected /\ C24_OnlyCompleteBodiesStore]_vars

\* a body with only the music, sent after a track was stored
C24_WitnessTitleMissing ==
    /\ Invoked /\ fn = "music" /\ PostsMusic(req) /\ req.claims = ClaimsOf("u1")
    /\ DOMAIN req.body.fields = {"music"}
    /\ Failure(resp, "Title is required")
    /\ uuid4(1) \in DOMAIN musics_table

(***************************************************************************)
(* C25.  A GET on the user-image function with identity claims that is     *)
(* served is answered "Image found" with a link to the caller's image key  *)
(* if an object is stored at that key, and with the failure "Image not     *)
(* found" if none is; a POST answered "Image updated successfully" leaves  *)
(* an object at the caller's key, and no request removes an object, so     *)
(* the caller's GET fails before the first image is stored there and       *)
(* succeeds after the caller's successful POST.  (The settings table the   *)
(* function reads is not written by it: the resolved username of a caller  *)
(* stays the same.)                                                        *)
(***************************************************************************)
\* the image key of the caller of event e
CallerImageKey(e) == ImageS3Key(ImageResolveUsername(e.claims, user_settings_table))

C25_GetFollowsStorage ==
    (/\ Invoked /\ fn = "image" /\ req.claims # NoClaims /\ Served(req, failed))
    => /\ req.httpMethod = "GET" /\ CallerImageKey(req) \in DOMAIN image_bucket
          => /\ Success(resp, "Image found")
             /\ resp.data.image_url
                  = PresignedUrl(image_storage_bucket_name, CallerImageKey(req))
       /\ req.httpMethod = "GET" /\ CallerImageKey(req) \notin DOMAIN image_bucket
          => Failure(resp, "Image not found")
       /\ Success(resp, "Image updated successfully")
          => CallerImageKey(req) \in DOMAIN image_bucket

C25_ImagesStay == DOMAIN image_bucket \subseteq DOMAIN image_bucket'

C25_ImageFoundIffStored == []C25_GetFollowsStorage /\ [][C25_ImagesStay]_vars

\* u1, resolved as alice, gets the image that only u1 can have stored
C25_WitnessFoundAfterPost ==
    /\ Invoked /\ fn = "image" /\ req.httpMethod = "GET" /\ req.claims = ClaimsOf("u1")
    /\ user_settings_table = EmptyStore
    /\ Success(resp, "Image found")
    /\ DOMAIN image_bucket = {"roles/alice.jpg"}
    /\ imageKeys["u1"] = {"roles/alice.jpg"}

(***************************************************************************)
(* C26.  A GET on the settings function that is served and names, in its   *)
(* query string, a user_id that has no record in the settings table is     *)
(* answered with status 200, "Settings retrieved", and username, email and *)
(* music_id all the empty string; a GET without a user_id query parameter  *)
(* is answered with status 400; neither creates a record or changes the    *)
(* table.                                                                  *)
(***************************************************************************)
C26_AbsentRecordReadsEmpty ==
    (/\ Invoked' /\ fn = "settings" /\ req'.httpMethod = "GET" /\ Served(req', failed'))
    => LET params == req'.queryStringParameters.params
       IN  /\ account_settings_table' = account_settings_table
           /\ "user_id" \notin DOMAIN params
              => Failure(resp', "user_id is required in query parameters")
           /\ ("user_id" \in DOMAIN params
               /\ params["user_id"] \notin DOMAIN account_settings_table)
              => /\ Success(resp', "Settings retrieved")
                 /\ resp'.data = [user_id |-> params["user_id"], username |-> "",
                                  email |-> "", music_id |-> ""]

C26_MissingSettingsAreEmpty == [][C26_AbsentRecordReadsEmpty]_vars

\* u2 has no record while u1 has one
C26_WitnessEmptyForUnknownUser ==
    /\ Invoked /\ fn = "settings" /\ req.httpMethod = "GET" /\ Served(req, failed)
    /\ req.path = "/user/settings"
    /\ req.queryStringParameters = QsMap([user_id |-> "u2"])
    /\ DOMAIN account_settings_table = {"u1"}
    /\ Success(resp, "Settings retrieved") /\ resp.data.username = ""

C28_TableAndBucketConsistent ==
    /\ \A m \in DOMAIN musics_table :
          Truthy(Get(musics_table[m], "s3_key", ""))
          => musics_table[m].s3_key \in DOMAIN musics_bucket
    /\ \A k \in DOMAIN musics_bucket :
          Cardinality({m \in DOMAIN musics_table :
                          Get(musics_table[m], "s3_key", "") = k}) = 1

(***************************************************************************)
(* C29.  A track is removed only by its owner: in every state, a DELETE    *)
(* /music naming a stored track, sent with the claims of a user other than *)
(* the user_id of the track's record and with no collaborator call         *)
(* failing, leaves the record and the stored object as they are.           *)
(***************************************************************************)
C29_OnlyOwnerDeletes ==
    \A m \in DOMAIN musics_table, u \in Users :
        ("s3_key" \in DOMAIN musics_table[m] /\ musics_table[m].user_id # u)
        => LET o == MusicHandle(Event("DELETE", "/music", ClaimsOf(u), BodyAbsent,
                                      QsMap([music_id |-> m])),
                                musics_table, musics_bucket, uuid4(issued + 1),
                                issued + 1, 0)
           IN  o.tbl = musics_table /\ o.bkt = musics_bucket

(***************************************************************************)
(* C30.  A settings update changes only the caller's own record: a PUT     *)
(* answered "Settings updated" writes the record keyed by the subject id   *)
(* of the caller's claims, whatever user_id the body or the query string   *)
(* name, with the username, email and music_id of the body, and leaves the *)
(* record of every other user_id, the musics table and the buckets as      *)
(* they were; no other step of the settings function changes any of them.  *)
(***************************************************************************)
C30_WritesOwnRecordOnly ==
    (Invoked' /\ fn = "settings")
    => /\ UNCHANGED <<musics_table, musics_bucket, user_settings_table, image_bucket,
                      history_bucket, history_results>>
       /\ IF req'.httpMethod = "PUT" /\ Success(resp', "Settings updated")
          THEN LET sub == req'.claims.sub
                   body == req'.body.fields
               IN  /\ req'.claims # NoClaims
                   /\ resp'.data.user_id = sub
                   /\ DOMAIN account_settings_table'
                        = DOMAIN account_settings_table \cup {sub}
                   /\ \A u \in DOMAIN account_settings_table \ {sub} :
                         account_settings_table'[u] = account_settings_table[u]
                   /\ account_settings_table'[sub].user_id = sub
                   /\ account_settings_table'[sub].username = body["username"]
                   /\ account_settings_table'[sub].email = body["email"]
                   /\ account_settings_table'[sub].music_id = body["music_id"]
          ELSE account_settings_table' = account_settings_table

C30_UpdateTouchesOwnRecord == [][C30_WritesOwnRecordOnly]_vars

\* u1 updates with a body and a query string naming u2, whose record stays
C30_WitnessNamingOther ==
    /\ Invoked /\ fn = "settings" /\ Success(resp, "Settings updated")
    /\ req.claims.sub = "u1"
    /\ Get(req.body.fields, "user_id", "") = "u2"
    /\ req.queryStringParameters = QsMap([user_id |-> "u2"])
    /\ DOMAIN account_settings_table = {"u1", "u2"}
    /\ account_settings_table["u1"].username = "alice"
    /\ account_settings_table["u2"].username = "bob"

====
